---- MODULE Spec2Model ----
(***************************************************************************)
(* The learning-path store (zustand), the generate facade with its retry   *)
(* policy, the interval-driven polling controllers (useTaskPolling and     *)
(* ProcessingScreen) and the saved-path loader, as one state machine.      *)
(*                                                                         *)
(* JavaScript runs every callback to its next await without interruption,  *)
(* so an action is the code between two awaits (or between an event and    *)
(* the first await) of one handler.                                        *)
(***************************************************************************)
EXTENDS Integers, Sequences, FiniteSets, Bags, TLC

\* ------------------------------------------------------------- bounds
MaxTicks == 2          \* interval callbacks (pollStatus invocations) explored
MaxGenerations == 2    \* generatePath calls explored
MaxLoads == 2          \* loadSavedPaths calls explored
MaxOps == 2            \* savePath / deletePath / updateMilestoneCompletion requests explored
MaxSessionOps == 1     \* savePath requests explored across sign-in and sign-out
MaxInflight == 2       \* pollStatus calls suspended at once, where ticks are not counted
MilestonesLength == 2  \* milestones.length of the Artifacts explored

\* ------------------------------------------------------ program constants
maxRetries == 2        \* learningPathService.generate

\* ------------------------------------------------------------- values
Null == "null"                   \* JS null, in string-valued fields
Undefined == "undefined"         \* JS undefined (an absent field)
NullPath == [null |-> TRUE]      \* JS null, where an Artifact is expected

Falsy(v) == v \in {Null, Undefined, ""}

SAVED_PATHS_KEY_PREFIX == "@saved_learning_paths_"
GUEST_USER_ID == "guest"

\* The user identifiers loadSavedPaths is called with.
UserIds == {"u1", "u2", GUEST_USER_ID, Undefined}

\* The AsyncStorage key of a user's partition (the template string, as a pair).
getStorageKey(userId) ==
  <<SAVED_PATHS_KEY_PREFIX, IF Falsy(userId) THEN GUEST_USER_ID ELSE userId>>

StorageKeys == {getStorageKey(u) : u \in UserIds}

\* An error text supplied by the server (a response body's error field).
ServerMessage == "quota exceeded"

TaskNames == <<"t1", "t2", "t3", "t4">>
Gens == 1..MaxGenerations
Tasks == {TaskNames[g] : g \in Gens}

\* pollStatus treats every status other than finished and failed alike (so does
\* the interval callback, up to the step indicator); three of them are kept.
NonTerminal == <<"queued", "started", "generating">>
NonTerminalSet == {NonTerminal[k] : k \in DOMAIN NonTerminal}
ServerStatuses == NonTerminalSet \cup {"finished", "failed"}

\* The statuses a generation job last reported as `status` may report next: it
\* moves forward through the non-terminal statuses and ends finished or failed.
Reachable(status) ==
  IF status \in NonTerminalSet
    THEN {NonTerminal[k] : k \in {j \in DOMAIN NonTerminal :
                                    \E i \in 1..j : NonTerminal[i] = status}}
         \cup {"finished", "failed"}
    ELSE {status} \ {"none"}

\* An Artifact: every field a string, Undefined when the object has no such field.
ArtifactFields == {"id", "body", "savedAt"}
Artifact(id, body, savedAt) == [id |-> id, body |-> body, savedAt |-> savedAt]

\* JSON.stringify of an array of Artifacts: a field that is undefined is left
\* out of its object.  JSON.parse reads it back; an absent field reads undefined.
\* An Artifact that has been through updateMilestoneCompletion has a further
\* field, completedMilestones (a map from index to boolean), which is kept as is.
JSONStringify(paths) ==
  [i \in DOMAIN paths |->
     [k \in {f \in DOMAIN paths[i] : f \in ArtifactFields => paths[i][f] # Undefined}
        |-> paths[i][k]]]
JSONParse(json) ==
  [i \in DOMAIN json |->
     [k \in ArtifactFields \cup DOMAIN json[i]
        |-> IF k \in DOMAIN json[i] THEN json[i][k] ELSE Undefined]]

\* What AsyncStorage.getItem yields: null for a missing key, else the string.
NullItem == [null |-> TRUE]
Item(paths) == [json |-> JSONStringify(paths)]

\* Lists GET /api/paths may answer with, and lists found in storage at start.
SavedLists ==
  { <<>>,
    <<Artifact("p1", "a", "T1")>>,
    <<Artifact("p2", "b", Undefined), Artifact("p1", "a", "T1")>> }

\* The answers of GET /api/paths: a body with a paths array, or one without.
ListResponses == {[paths |-> l] : l \in SavedLists} \cup {[message |-> "ok"]}

\* if (response.paths): any array is truthy, a missing field is not
PathsTruthy_NonEmpty(response) ==
  "paths" \in DOMAIN response /\ response.paths # <<>>

PathsTruthy(response) == "paths" \in DOMAIN response

\* a fallback that never restores what was stored
StoredPaths_AlwaysEmpty(stored) == <<>>

\* loadSavedPaths on what getItem yielded: the parsed list, or the empty list
StoredPaths(stored) ==
  IF stored # NullItem THEN JSONParse(stored.json) ELSE <<>>

\* The Artifact the remote service generated for a task.
ResultOf(tid) == [id |-> Undefined, body |-> tid, savedAt |-> Undefined]

VARIABLES
  store,        \* the zustand state of useLearningPathStore
  storage,      \* AsyncStorage: key -> stored string, Null when absent
  genPc,        \* learningPathService.generate: "idle" | "request" | "delay"
  retryCount,   \* generate's retryCount argument
  genCalls,     \* generatePath calls started so far
  genAttempts,  \* POST /api/generate requests issued by the current call
  genInflight,  \* POST /api/generate requests not yet answered
  genErrors,    \* the errors the current call's earlier requests ended with
  genReturn,    \* how the last generatePath call ended
  screen,       \* the screen on top: "form" | "processing" | "result"
  ctrl,         \* per generation: the polling controller mounted for it
  polls,        \* the bag of pollStatus invocations suspended at an await
  nTicks,       \* interval callbacks run so far
  srv,          \* the remote service: status of each task
  load,         \* loadSavedPaths: where the call is suspended
  ops,          \* savePath / deletePath / updateMilestoneCompletion calls suspended
  now,          \* the clock new Date() reads
  session,      \* AuthContext: the identity signed in, Null when none
  remoteLog,    \* the save / delete / update-milestone requests issued so far
  opReturn,     \* what the last store operation to return has returned
  auth          \* AuthContext: token, isAuthenticated, isLoading, and logout's position

vars == <<store, storage, genPc, retryCount, genCalls, genAttempts, genInflight, genErrors,
          genReturn, screen, ctrl, polls, nTicks, srv, load,
          ops, now, session, remoteLog, opReturn, auth>>

genVars == <<genPc, retryCount, genCalls, genAttempts, genInflight, genErrors, genReturn>>
pollVars == <<ctrl, polls, nTicks>>
loadVars == <<storage, load>>
savedVars == <<ops, now, session, remoteLog, opReturn, auth>>

\* zustand set(partial): a shallow merge into the state
Set(s, patch) ==
  [k \in DOMAIN s |-> IF k \in DOMAIN patch THEN patch[k] ELSE s[k]]

InitialStore ==
  [savedPaths |-> <<>>, currentPath |-> NullPath, taskId |-> Null,
   taskStatus |-> Null, isGenerating |-> FALSE, error |-> Null,
   isLoading |-> FALSE, currentUserId |-> Null]

\* ---------------------------------------------- learningPathService.generate
\* An axios error: its code, its message (as words) and the error field of the
\* response body, Undefined when there is no response or no such field.
TimeoutError ==
  [code |-> "ECONNABORTED", message |-> <<"timeout", "of", "300000ms", "exceeded">>,
   bodyError |-> Undefined]
NetworkError ==
  [code |-> "ERR_NETWORK", message |-> <<"Network Error">>, bodyError |-> Undefined]
HttpError ==
  [code |-> "ERR_BAD_RESPONSE",
   message |-> <<"Request", "failed", "with", "status", "code", "500">>,
   bodyError |-> ServerMessage]
HttpErrorNoBody ==
  [code |-> "ERR_BAD_REQUEST",
   message |-> <<"Request", "failed", "with", "status", "code", "400">>,
   bodyError |-> Undefined]
GenErrors == {TimeoutError, NetworkError, HttpError, HttpErrorNoBody}

Includes(message, word) == \E i \in DOMAIN message : message[i] = word

\* generate with a retry test that knows the timeout code only
ShouldRetry_TimeoutCodeOnly(rc, e) ==
  /\ rc < maxRetries
  /\ e.code = "ECONNABORTED"

\* generate with the retry budget off by one
ShouldRetry_OffByOne(rc, e) ==
  /\ rc <= maxRetries
  /\ \/ e.code = "ECONNABORTED"
     \/ Includes(e.message, "timeout")
     \/ Includes(e.message, "Network Error")

ShouldRetry(rc, e) ==
  /\ rc < maxRetries
  /\ \/ e.code = "ECONNABORTED"
     \/ Includes(e.message, "timeout")
     \/ Includes(e.message, "Network Error")

\* What POST /api/generate answers for the g-th generation.
GenResponses(g) ==
  IF g \notin Gens THEN {} ELSE
  LET t == TaskNames[g] IN
  { [status |-> "finished", result |-> ResultOf(t), task_id |-> t],
    [status |-> "finished", result |-> ResultOf(t), task_id |-> Undefined],
    [status |-> "finished", result |-> NullPath, task_id |-> t],
    [status |-> "queued", result |-> NullPath, task_id |-> t],
    [status |-> "queued", result |-> NullPath, task_id |-> Undefined] }

IsImmediate(response) ==
  response.status = "finished" /\ response.result # NullPath

\* How a generatePath call ended: what it returned and, for a failure, the error
\* generate threw.
NoError == [code |-> Null, message |-> <<>>, bodyError |-> Undefined]
NoReturn == [success |-> FALSE, kind |-> "none", taskId |-> Null, result |-> NullPath,
             error |-> NoError]

\* ------------------------------------------------------------ store patches
GenerateStartPatch ==
  [isGenerating |-> TRUE, error |-> Null, taskId |-> Null, taskStatus |-> Null]

\* generatePath's immediate branch without the result
GenerateImmediatePatch_NoPath(response) ==
  [taskId |-> response.task_id, taskStatus |-> "finished", isGenerating |-> FALSE]

GenerateImmediatePatch(response) ==
  [currentPath |-> response.result, taskId |-> response.task_id,
   taskStatus |-> "finished", isGenerating |-> FALSE]

GenerateDeferredPatch(response) ==
  [taskId |-> response.task_id, taskStatus |-> response.status]

\* error.response?.data?.error || 'Failed to start generation'
\* (the variant always takes the generic text)
GenerateErrorMessage_Generic(e) == "Failed to start generation"

GenerateErrorMessage(e) ==
  IF Falsy(e.bodyError) THEN "Failed to start generation" ELSE e.bodyError

GenerateFailedPatch(e) ==
  [error |-> GenerateErrorMessage(e), isGenerating |-> FALSE]

ResetGenerationPatch ==
  [taskId |-> Null, taskStatus |-> Null, isGenerating |-> FALSE, error |-> Null,
   currentPath |-> NullPath]

\* pollStatus's set after the result fetch
\* (the variant leaves the in-flight flag set)
PollFinishedPatch_StillGenerating(tid) ==
  [currentPath |-> ResultOf(tid), taskStatus |-> "finished"]

PollFinishedPatch(tid) ==
  [currentPath |-> ResultOf(tid), isGenerating |-> FALSE, taskStatus |-> "finished"]

PollFailedPatch(serverError) ==
  [error |-> IF Falsy(serverError) THEN "Generation failed" ELSE serverError,
   isGenerating |-> FALSE, taskStatus |-> "failed"]

PollErrorPatch(message) ==
  [error |-> message, isGenerating |-> FALSE]

\* ------------------------------------------------------ polling controller
\* A controller: which component runs it, the status generate answered with, its
\* interval, its pending navigation timeout, and whether its cleanup has run and
\* whether Cancel was pressed on it.
NoCtrl == [kind |-> "none", firstStatus |-> Null, mounted |-> FALSE, timer |-> "none",
           cancelled |-> FALSE, reset |-> FALSE, navPending |-> FALSE]

\* The components an app polls with: ProcessingScreen or useTaskPolling, the
\* same one for every generation.
Components(c) ==
  LET used == {c[g].kind : g \in DOMAIN c} \ {"none"} IN
  IF used = {} THEN {"screen", "hook"} ELSE used

\* A suspended pollStatus call of controller g: awaiting checkStatus(tid)
\* (pc "status") or getResult(tid) (pc "result").
Poll(g, pc, tid) == [g |-> g, pc |-> pc, tid |-> tid]
Add(B, p) == B (+) SetToBag({p})
Remove(B, p) == B (-) SetToBag({p})

\* setInterval(...) of the effect: the timer fires until it is cleared
StartInterval(c) == [c EXCEPT !.timer = "live"]

\* a cleanup that leaves the timer running
ClearInterval_KeepsTimer(c) == c

\* clearInterval(interval)
ClearInterval(c) == [c EXCEPT !.timer = IF c.timer = "live" THEN "cleared" ELSE c.timer]

TimerFires(c) == c.timer = "live"

\* The effect of useTaskPolling(taskId) / of ProcessingScreen on mount.
MountController(kind, routeTaskId, status) ==
  LET c == [NoCtrl EXCEPT !.kind = kind, !.firstStatus = status, !.mounted = TRUE] IN
  IF kind = "hook" /\ Falsy(routeTaskId) THEN c ELSE StartInterval(c)

\* The effect's cleanup (unmount, or a changed taskId).
Cleanup(c) == [ClearInterval(c) EXCEPT !.mounted = FALSE, !.cancelled = TRUE]

\* A loadSavedPaths call: where it is suspended ("remote": getSavedPaths,
\* "mirror": setItem, "local": getItem), its argument, and for the record what
\* storage held when it was called, how the remote call and the local read ended
\* and the list that was fetched.
NoLoad == [pc |-> "idle", calls |-> 0, userId |-> Undefined, before |-> <<>>,
           remote |-> "none", read |-> "none", fetched |-> <<>>]

\* For the record: whether GET /api/paths answered with a list, and the list.
Answered(response) == IF "paths" \in DOMAIN response THEN "list" ELSE "nolist"
Fetched(response) == IF "paths" \in DOMAIN response THEN response.paths ELSE <<>>

\* What a store operation returned: { success, pathId } or { success, error },
\* with the operation, the identity it ran under (Null when the session changed
\* between its call and its return), the save timestamp it assigned, how its
\* remote request ended, the number of loadSavedPaths calls made by then, and
\* for a save whether no other call of the store was suspended when it returned.
NoOpReturn == [op |-> "none", success |-> FALSE, pathId |-> Null,
               savedAt |-> Undefined, user |-> Null, loads |-> 0, remote |-> "none",
               alone |-> FALSE]

\* AuthContext's state next to the user: the token (an account's, none for a
\* guest), isAuthenticated, isLoading, where a logout call is suspended
\* ("remote": authService.logout, "clearing": clearAuthState), and for the
\* record how the remote request of the last logout ended.
SignedOut == [pc |-> "idle", token |-> Null, isAuthenticated |-> FALSE,
              isLoading |-> FALSE, remote |-> "none"]
SignedIn(user) ==
  [SignedOut EXCEPT !.token = IF user = GUEST_USER_ID THEN Null ELSE "token",
                    !.isAuthenticated = TRUE]

\* logout's finally block on AuthContext: setToken(null), setIsAuthenticated(false)
\* (the variant forgets the token)
ClearAuth_KeepsToken(a) == [a EXCEPT !.isAuthenticated = FALSE]

ClearAuth(a) == [a EXCEPT !.token = Null, !.isAuthenticated = FALSE]

\* ------------------------------------------------------------------- Init
Init ==
  /\ store = InitialStore
  /\ storage = [k \in StorageKeys |-> NullItem]
  /\ genPc = "idle"
  /\ retryCount = 0
  /\ genCalls = 0
  /\ genAttempts = 0
  /\ genInflight = 0
  /\ genErrors = <<>>
  /\ genReturn = NoReturn
  /\ screen = "form"
  /\ ctrl = [g \in Gens |-> NoCtrl]
  /\ polls = EmptyBag
  /\ nTicks = 0
  /\ srv = [t \in Tasks |-> "none"]
  /\ load = NoLoad
  /\ ops = EmptyBag
  /\ now = 2
  /\ session = Null
  /\ remoteLog = EmptyBag
  /\ opReturn = NoOpReturn
  /\ auth = SignedOut

\* ------------------------------------------------------------ generatePath
\* GeneratePathScreen.handleSubmit: generatePath(payload) up to its await.
GeneratePathStart ==
  /\ screen = "form"
  /\ genPc = "idle"
  /\ genCalls < MaxGenerations
  /\ store' = Set(store, GenerateStartPatch)
  /\ genPc' = "request"
  /\ retryCount' = 0
  /\ genCalls' = genCalls + 1
  /\ genAttempts' = 1
  /\ genInflight' = genInflight + 1
  /\ genErrors' = <<>>
  /\ UNCHANGED <<genReturn, screen, srv>>
  /\ UNCHANGED pollVars
  /\ UNCHANGED loadVars
  /\ UNCHANGED savedVars

\* POST /api/generate answered 2xx: generate returns response.data, generatePath
\* stores it and returns, handleSubmit navigates.  The call's locals are gone.
GenerateSuccess(response, kind) ==
  /\ genPc = "request"
  /\ genPc' = "idle"
  /\ genInflight' = genInflight - 1
  /\ srv' = IF Falsy(response.task_id) THEN srv
            ELSE [srv EXCEPT ![response.task_id] = response.status]
  /\ IF IsImmediate(response)
       THEN /\ store' = Set(store, GenerateImmediatePatch(response))
            /\ genReturn' = [success |-> TRUE, kind |-> "immediate",
                             taskId |-> response.task_id, result |-> response.result,
                             error |-> NoError]
            /\ screen' = "result"
            /\ ctrl' = ctrl
       ELSE /\ store' = Set(store, GenerateDeferredPatch(response))
            /\ genReturn' = [success |-> TRUE, kind |-> "deferred",
                             taskId |-> response.task_id, result |-> NullPath,
                             error |-> NoError]
            /\ screen' = "processing"
            /\ ctrl' = [ctrl EXCEPT ![genCalls] = MountController(kind, response.task_id,
                                                                    response.status)]
  /\ retryCount' = 0
  /\ genAttempts' = 0
  /\ genErrors' = <<>>
  /\ UNCHANGED <<genCalls, polls, nTicks>>
  /\ UNCHANGED loadVars
  /\ UNCHANGED savedVars

\* POST /api/generate failed and generate's catch retries: the 2 s wait starts.
GenerateRetryWait(e) ==
  /\ genPc = "request"
  /\ ShouldRetry(retryCount, e)
  /\ genPc' = "delay"
  /\ genInflight' = genInflight - 1
  /\ genErrors' = Append(genErrors, e)
  /\ UNCHANGED <<store, retryCount, genCalls, genAttempts, genReturn, screen, srv>>
  /\ UNCHANGED pollVars
  /\ UNCHANGED loadVars
  /\ UNCHANGED savedVars

\* The 2 s wait is over: learningPathService.generate(data, retryCount + 1).
GenerateRetry ==
  /\ genPc = "delay"
  /\ genPc' = "request"
  /\ retryCount' = retryCount + 1
  /\ genAttempts' = genAttempts + 1
  /\ genInflight' = genInflight + 1
  /\ UNCHANGED <<store, genCalls, genErrors, genReturn, screen, srv>>
  /\ UNCHANGED pollVars
  /\ UNCHANGED loadVars
  /\ UNCHANGED savedVars

\* POST /api/generate failed and generate rethrows: generatePath's catch.
GenerateFailure(e) ==
  /\ genPc = "request"
  /\ ~ShouldRetry(retryCount, e)
  /\ genPc' = "idle"
  /\ genInflight' = genInflight - 1
  /\ store' = Set(store, GenerateFailedPatch(e))
  /\ genReturn' = [success |-> FALSE, kind |-> "failure", taskId |-> Null,
                   result |-> NullPath, error |-> e]
  /\ retryCount' = 0
  /\ genAttempts' = 0
  /\ genErrors' = <<>>
  /\ UNCHANGED <<genCalls, screen, srv>>
  /\ UNCHANGED pollVars
  /\ UNCHANGED loadVars
  /\ UNCHANGED savedVars

\* resetGeneration() from the form's progress overlay (handleCancelGeneration)
\* or from PathResultScreen (handleCreateNew), which then shows the form.
ResetGeneration ==
  /\ \/ screen = "form" /\ genPc # "idle"
     \/ screen = "result"
  /\ store' = Set(store, ResetGenerationPatch)
  /\ screen' = "form"
  /\ UNCHANGED <<srv>>
  /\ UNCHANGED genVars
  /\ UNCHANGED pollVars
  /\ UNCHANGED loadVars
  /\ UNCHANGED savedVars

\* ------------------------------------------------------------- pollStatus
\* One interval callback of controller g: pollStatus() up to its first await.
\* Without a task identifier it returns no_task and the callback does nothing.
Tick(g) ==
  /\ TimerFires(ctrl[g])
  /\ nTicks < MaxTicks
  /\ nTicks' = nTicks + 1
  /\ polls' = IF Falsy(store.taskId) THEN polls
              ELSE Add(polls, Poll(g, "status", store.taskId))
  /\ UNCHANGED <<store, screen, ctrl, srv>>
  /\ UNCHANGED genVars
  /\ UNCHANGED loadVars
  /\ UNCHANGED savedVars

\* What the interval callback does with pollStatus's return value.
\* (the variant goes on polling after a transport error)
AfterPoll_RetriesOnError(c, status) ==
  IF status \in {"finished", "failed"}
    THEN [ClearInterval(c) EXCEPT
            !.navPending = (c.kind = "screen" /\ status = "finished") \/ c.navPending]
    ELSE c

AfterPoll(c, status) ==
  IF status \in {"finished", "failed", "error"}
    THEN [ClearInterval(c) EXCEPT
            !.navPending = (c.kind = "screen" /\ status = "finished") \/ c.navPending]
    ELSE c

\* GET /api/status/{taskId} answered with the task's status.
StatusResponse(p, status, serverError) ==
  /\ p.pc = "status"
  /\ status \in Reachable(srv[p.tid])
  /\ (serverError # Undefined) => status = "failed"
  /\ srv' = [srv EXCEPT ![p.tid] = status]
  /\     /\ IF status = "finished"
              THEN \* the result fetch is issued at once
                   /\ store' = Set(store, [taskStatus |-> status])
                   /\ polls' = Add(Remove(polls, p), Poll(p.g, "result", p.tid))
                   /\ ctrl' = ctrl
              ELSE IF status = "failed"
              THEN /\ store' = Set(Set(store, [taskStatus |-> status]),
                                   PollFailedPatch(serverError))
                   /\ polls' = Remove(polls, p)
                   /\ ctrl' = [ctrl EXCEPT ![p.g] = AfterPoll(@, "failed")]
              ELSE /\ store' = Set(store, [taskStatus |-> status])
                   /\ polls' = Remove(polls, p)
                   /\ ctrl' = [ctrl EXCEPT ![p.g] = AfterPoll(@, status)]
  /\ UNCHANGED <<screen, nTicks>>
  /\ UNCHANGED genVars
  /\ UNCHANGED loadVars
  /\ UNCHANGED savedVars

\* GET /api/result/{taskId} answered with the Artifact.
ResultResponse(p) ==
  /\ p.pc = "result"
  /\ store' = Set(store, PollFinishedPatch(p.tid))
  /\ polls' = Remove(polls, p)
  /\ ctrl' = [ctrl EXCEPT ![p.g] = AfterPoll(@, "finished")]
  /\ UNCHANGED <<screen, nTicks, srv>>
  /\ UNCHANGED genVars
  /\ UNCHANGED loadVars
  /\ UNCHANGED savedVars

\* The status request or the result fetch fails: pollStatus's catch.
PollError(p) ==
  /\ store' = Set(store, PollErrorPatch("Network Error"))
  /\ polls' = Remove(polls, p)
  /\ ctrl' = [ctrl EXCEPT ![p.g] = AfterPoll(@, "error")]
  /\ UNCHANGED <<screen, nTicks, srv>>
  /\ UNCHANGED genVars
  /\ UNCHANGED loadVars
  /\ UNCHANGED savedVars

\* ProcessingScreen.handleCancel: resetGeneration(), then navigation.goBack()
\* unmounts the screen and the effect's cleanup runs.
HandleCancel(g) ==
  /\ screen = "processing"
  /\ ctrl[g].mounted
  /\ ctrl[g].kind = "screen"
  /\ store' = Set(store, ResetGenerationPatch)
  /\ ctrl' = [ctrl EXCEPT ![g] = [Cleanup(@) EXCEPT !.reset = TRUE]]
  /\ screen' = "form"
  /\ UNCHANGED <<polls, nTicks, srv>>
  /\ UNCHANGED genVars
  /\ UNCHANGED loadVars
  /\ UNCHANGED savedVars

\* The polling component unmounts without Cancel (back navigation): cleanup only.
Unmount(g) ==
  /\ screen = "processing"
  /\ ctrl[g].mounted
  /\ ctrl' = [ctrl EXCEPT ![g] = Cleanup(@)]
  /\ screen' = "form"
  /\ UNCHANGED <<store, polls, nTicks, srv>>
  /\ UNCHANGED genVars
  /\ UNCHANGED loadVars
  /\ UNCHANGED savedVars

\* ProcessingScreen: setTimeout(() => navigation.replace('PathResult'), 1500).
\* The screen's own route is replaced; once the screen is gone there is none.
NavigateToResult(g) ==
  /\ ctrl[g].navPending
  /\ ctrl' = [ctrl EXCEPT ![g] =
                [(IF @.mounted THEN Cleanup(@) ELSE @) EXCEPT !.navPending = FALSE]]
  /\ screen' = IF ctrl[g].mounted THEN "result" ELSE screen
  /\ UNCHANGED <<store, polls, nTicks, srv>>
  /\ UNCHANGED genVars
  /\ UNCHANGED loadVars
  /\ UNCHANGED savedVars

Next ==
  \/ GeneratePathStart
  \/ \E kind \in Components(ctrl) :
       \E response \in GenResponses(genCalls) : GenerateSuccess(response, kind)
  \/ \E e \in GenErrors : GenerateRetryWait(e)
  \/ GenerateRetry
  \/ \E e \in GenErrors : GenerateFailure(e)
  \/ ResetGeneration
  \/ \E g \in Gens : Tick(g)
  \/ \E p \in BagToSet(polls) : \E status \in ServerStatuses :
       \E serverError \in {Undefined, ServerMessage} :
         StatusResponse(p, status, serverError)
  \/ \E p \in BagToSet(polls) : ResultResponse(p)
  \/ \E p \in BagToSet(polls) : PollError(p)
  \/ \E g \in Gens : HandleCancel(g)
  \/ \E g \in Gens : Unmount(g)
  \/ \E g \in Gens : NavigateToResult(g)

Spec == Init /\ [][Next]_vars

\* generatePath and the generate facade alone: no interval callback runs.
NextGenerate ==
  \/ GeneratePathStart
  \/ \E kind \in Components(ctrl) :
       \E response \in GenResponses(genCalls) : GenerateSuccess(response, kind)
  \/ \E e \in GenErrors : GenerateRetryWait(e)
  \/ GenerateRetry
  \/ \E e \in GenErrors : GenerateFailure(e)
  \/ ResetGeneration
  \/ \E g \in Gens : Unmount(g)

SpecGenerate == Init /\ [][NextGenerate]_vars

\* --------------------------------------------------------- loadSavedPaths
\* a test that asks the remote list for the guest as well
IsRemoteUser_GuestToo(userId) == ~Falsy(userId)

\* if (userId && userId !== GUEST_USER_ID): the remote list is asked for
IsRemoteUser(userId) == ~Falsy(userId) /\ userId # GUEST_USER_ID

\* loadSavedPaths(userId) up to its first await: the remote list for a signed-in
\* user, the local read otherwise.
LoadCall(userId) ==
  /\ load.pc = "idle"
  /\ load.calls < MaxLoads
  /\ store' = Set(store, [isLoading |-> TRUE, currentUserId |-> userId])
  /\ load' = [NoLoad EXCEPT
       !.pc = IF IsRemoteUser(userId) THEN "remote" ELSE "local",
       !.calls = load.calls + 1,
       !.userId = userId,
       !.before = storage]
  /\ UNCHANGED <<storage, screen, srv>>
  /\ UNCHANGED genVars
  /\ UNCHANGED pollVars

LoadStart(userId) ==
  /\ LoadCall(userId)
  /\ UNCHANGED savedVars

\* GET /api/paths answered 2xx.  With a paths array: it replaces the collection
\* and is written to the user's partition; without: on to the local read.
LoadRemoteAnswer(response) ==
  /\ load.pc = "remote"
  /\ IF PathsTruthy(response)
       THEN /\ store' = Set(store, [savedPaths |-> response.paths, isLoading |-> FALSE])
            /\ storage' = [storage EXCEPT
                 ![getStorageKey(load.userId)] = Item(response.paths)]
            /\ load' = [load EXCEPT !.pc = "mirror", !.remote = Answered(response),
                                    !.fetched = Fetched(response)]
       ELSE /\ load' = [load EXCEPT !.pc = "local", !.remote = Answered(response),
                                    !.fetched = Fetched(response)]
            /\ UNCHANGED <<store, storage>>
  /\ UNCHANGED <<screen, srv>>
  /\ UNCHANGED genVars
  /\ UNCHANGED pollVars
  /\ UNCHANGED savedVars

\* AsyncStorage.setItem has completed: loadSavedPaths returns.
LoadMirrorDone ==
  /\ load.pc = "mirror"
  /\ load' = [load EXCEPT !.pc = "idle"]
  /\ UNCHANGED <<store, storage, screen, srv>>
  /\ UNCHANGED genVars
  /\ UNCHANGED pollVars
  /\ UNCHANGED savedVars

\* GET /api/paths failed: the inner catch, then the local read.
LoadRemoteFail ==
  /\ load.pc = "remote"
  /\ load' = [load EXCEPT !.pc = "local", !.remote = "failed"]
  /\ UNCHANGED <<store, storage, screen, srv>>
  /\ UNCHANGED genVars
  /\ UNCHANGED pollVars
  /\ UNCHANGED savedVars

\* AsyncStorage.getItem answered: the stored list, or none for a missing key.
LoadLocalAnswer ==
  /\ load.pc = "local"
  /\ LET stored == storage[getStorageKey(load.userId)] IN
       store' = Set(store, [savedPaths |-> StoredPaths(stored), isLoading |-> FALSE])
  /\ load' = [load EXCEPT !.pc = "idle", !.read = "ok"]
  /\ UNCHANGED <<storage, screen, srv>>
  /\ UNCHANGED genVars
  /\ UNCHANGED pollVars
  /\ UNCHANGED savedVars

\* AsyncStorage.getItem rejected: the outer catch.
LoadLocalFail ==
  /\ load.pc = "local"
  /\ store' = Set(store, [error |-> "Failed to read storage", isLoading |-> FALSE])
  /\ load' = [load EXCEPT !.pc = "idle", !.read = "failed"]
  /\ UNCHANGED <<storage, screen, srv>>
  /\ UNCHANGED genVars
  /\ UNCHANGED pollVars
  /\ UNCHANGED savedVars

\* The saved-path loader alone, over every content storage may start with.
\* Calls of loadSavedPaths are taken one after another.
InitLoad ==
  /\ store = InitialStore
  /\ storage \in [StorageKeys -> {NullItem} \cup {Item(l) : l \in SavedLists}]
  /\ genPc = "idle"
  /\ retryCount = 0
  /\ genCalls = 0
  /\ genAttempts = 0
  /\ genInflight = 0
  /\ genErrors = <<>>
  /\ genReturn = NoReturn
  /\ screen = "form"
  /\ ctrl = [g \in Gens |-> NoCtrl]
  /\ polls = EmptyBag
  /\ nTicks = 0
  /\ srv = [t \in Tasks |-> "none"]
  /\ load = NoLoad
  /\ ops = EmptyBag
  /\ now = 2
  /\ session = Null
  /\ remoteLog = EmptyBag
  /\ opReturn = NoOpReturn
  /\ auth = SignedOut

NextLoad ==
  \/ \E userId \in UserIds : LoadStart(userId)
  \/ \E response \in ListResponses : LoadRemoteAnswer(response)
  \/ LoadMirrorDone
  \/ LoadRemoteFail
  \/ LoadLocalAnswer
  \/ LoadLocalFail

SpecLoad == InitLoad /\ [][NextLoad]_vars

\* ===================================================================
\* The saved collection: savePath, deletePath, updateMilestoneCompletion,
\* persistPaths, with sign-in, sign-out and loadSavedPaths
\* ===================================================================

\* The identities a session runs under (DashboardScreen's userId): an account's
\* id, or 'guest'.
SessionIds == {"u1", GUEST_USER_ID}

\* new Date().toISOString(): ISO strings order as the instants they denote.
TimeNames == <<"T1", "T2", "T3", "T4", "T5", "T6">>
Timestamp(t) == TimeNames[t]
InstantOf(savedAt) == CHOOSE t \in DOMAIN TimeNames : TimeNames[t] = savedAt

\* The path_id values POST /api/save-path assigns.
ServerIds == {"s1", "s2"}

\* What POST /api/save-path ends with: a body, or an error.
SaveOutcomes ==
  {[ok |-> TRUE, success |-> TRUE, path_id |-> sid] : sid \in ServerIds}
    \cup {[ok |-> TRUE, success |-> FALSE, path_id |-> Undefined],
          [ok |-> FALSE, success |-> FALSE, path_id |-> Undefined]}

\* A generation result that became the current Artifact in a session of `user`
\* (the body stands for the content, which is that user's).
GeneratedFor(user) == [id |-> Undefined, body |-> user, savedAt |-> Undefined]

\* The lists GET /api/paths answers with for `user`: that user's saved paths.
RemoteLists(user) ==
  {[paths |-> <<>>], [paths |-> <<Artifact("p1", user, "T1")>>], [message |-> "ok"]}

\* Array.prototype.findIndex(p => p.id === id), counted from 1; 0 for JS's -1
\* (the variant takes the first entry when none matches)
FindIndex_FirstWhenNone(paths, id) ==
  IF paths = <<>> THEN 0
  ELSE IF \E i \in DOMAIN paths : paths[i].id = id
    THEN CHOOSE i \in DOMAIN paths :
           paths[i].id = id /\ \A j \in 1..(i - 1) : paths[j].id # id
    ELSE 1

FindIndex(paths, id) ==
  IF \E i \in DOMAIN paths : paths[i].id = id
    THEN CHOOSE i \in DOMAIN paths :
           paths[i].id = id /\ \A j \in 1..(i - 1) : paths[j].id # id
    ELSE 0

\* savedPaths.filter(p => p.id !== pathId)
\* (the variant keeps the first entry whatever its identifier)
WithoutId_AfterFirst(paths, pathId) ==
  IF paths = <<>> THEN <<>>
  ELSE <<Head(paths)>> \o SelectSeq(Tail(paths), LAMBDA q : q.id # pathId)

RECURSIVE WithoutId(_, _)
WithoutId(paths, pathId) ==
  IF paths = <<>> THEN <<>>
  ELSE (IF Head(paths).id = pathId THEN <<>> ELSE <<Head(paths)>>)
         \o WithoutId(Tail(paths), pathId)

\* savePath's local part: { ...currentPath, id: pathId, savedAt }, replaced in
\* place when the identifier is already saved, prepended otherwise
\* (the variant does not stamp the save time)
Upsert_NoTimestamp(paths, path, pathId, savedAt) ==
  LET pathWithId == [path EXCEPT !.id = pathId]
      existingIndex == FindIndex(paths, pathId) IN
  IF existingIndex > 0
    THEN [paths EXCEPT ![existingIndex] = pathWithId]
    ELSE <<pathWithId>> \o paths

Upsert(paths, path, pathId, savedAt) ==
  LET pathWithId == [path EXCEPT !.id = pathId, !.savedAt = savedAt]
      existingIndex == FindIndex(paths, pathId) IN
  IF existingIndex > 0
    THEN [paths EXCEPT ![existingIndex] = pathWithId]
    ELSE <<pathWithId>> \o paths

\* path.completedMilestones, the empty map when the Artifact has none yet
CompletedMilestones(path) ==
  IF "completedMilestones" \in DOMAIN path THEN path.completedMilestones ELSE <<>>

\* newPaths[pathIndex].completedMilestones[milestoneIndex] = completed
WithCompletion(path, milestoneIndex, completed) ==
  [k \in DOMAIN path \cup {"completedMilestones"} |->
     IF k = "completedMilestones"
       THEN (milestoneIndex :> completed) @@ CompletedMilestones(path)
       ELSE path[k]]

\* The index arguments explored: the first milestone, and the indices just
\* outside the range on either side.
Indices == {0 - 1, 0, MilestonesLength}

\* A suspended store operation: its kind, the savedPaths and currentPath it read
\* before its await, its arguments, and the identity signed in when it started.
Op(kind, user, savedPaths, currentPath, pathId, pathIndex, milestoneIndex, completed) ==
  [kind |-> kind, user |-> user, savedPaths |-> savedPaths, currentPath |-> currentPath,
   pathId |-> pathId, pathIndex |-> pathIndex, milestoneIndex |-> milestoneIndex,
   completed |-> completed]

\* The identity an operation ran under: the one signed in at its call, if it is
\* still the one signed in at its return.
RanUnder(o) == IF o.user = session THEN session ELSE Null

\* A request to the remote service, with the identity signed in when it was sent.
Request(kind, user) == [kind |-> kind, user |-> user]

\* persistPaths: the collection just set, written to the partition of the
\* store's current user.
PersistPaths_GuestKey(st, paths) ==
  [st EXCEPT ![getStorageKey(GUEST_USER_ID)] = Item(paths)]

PersistPaths(st, paths) ==
  [st EXCEPT ![getStorageKey(store.currentUserId)] = Item(paths)]

\* resetForUserSwitch's set
\* (the variant leaves the current Artifact and the error in place)
ResetForUserSwitchPatch_KeepsCurrent ==
  [savedPaths |-> <<>>, taskId |-> Null, taskStatus |-> Null,
   isGenerating |-> FALSE, isLoading |-> FALSE, currentUserId |-> Null]

ResetForUserSwitchPatch ==
  [savedPaths |-> <<>>, currentPath |-> NullPath, taskId |-> Null, taskStatus |-> Null,
   isGenerating |-> FALSE, error |-> Null, isLoading |-> FALSE, currentUserId |-> Null]

\* ------------------------------------------------------------- sessions
\* Sign-in (login, register or continueAsGuest): RootNavigator shows MainStack,
\* DashboardScreen mounts and its effect calls loadSavedPaths(userId).
Login(user) ==
  /\ session = Null
  /\ session' = user
  /\ auth' = [SignedIn(user) EXCEPT !.remote = auth.remote]
  /\ LoadCall(user)
  /\ UNCHANGED <<ops, now, remoteLog, opReturn>>

\* logout's finally block: the user is cleared and the store is reset.
Logout ==
  /\ session # Null
  /\ session' = Null
  /\ auth' = ClearAuth(auth)
  /\ store' = Set(store, ResetForUserSwitchPatch)
  /\ UNCHANGED <<storage, load, screen, srv, ops, now, remoteLog, opReturn>>
  /\ UNCHANGED genVars
  /\ UNCHANGED pollVars

\* A generation result becomes the current Artifact (setCurrentPath, or the
\* set of generatePath / pollStatus).
SetCurrentPath(path) ==
  /\ session # Null
  /\ store.currentPath # path
  /\ store' = Set(store, [currentPath |-> path])
  /\ UNCHANGED <<storage, load, screen, srv>>
  /\ UNCHANGED savedVars
  /\ UNCHANGED genVars
  /\ UNCHANGED pollVars

\* --------------------------------------------------------------- savePath
\* savePath() without a current Artifact: { success: false }.
SavePathNoPath ==
  /\ session # Null
  /\ store.currentPath = NullPath
  /\ opReturn' = [NoOpReturn EXCEPT !.op = "save", !.user = session,
                                    !.loads = load.calls]
  /\ UNCHANGED <<store, storage, load, screen, srv, ops, now, session, auth, remoteLog>>
  /\ UNCHANGED genVars
  /\ UNCHANGED pollVars

\* savePath() up to its await: POST /api/save-path is sent.
SavePathStart ==
  /\ session # Null
  /\ store.currentPath # NullPath
  /\ BagCardinality(remoteLog) < MaxOps
  /\ ops' = Add(ops, Op("save", session, store.savedPaths, store.currentPath,
                         store.currentPath.id, 0, 0, FALSE))
  /\ remoteLog' = Add(remoteLog, Request("save", session))
  /\ UNCHANGED <<store, storage, load, screen, srv, now, session, auth, opReturn>>
  /\ UNCHANGED genVars
  /\ UNCHANGED pollVars

\* The remote save has ended one way or the other: the local upsert, the set,
\* persistPaths, and the return.
SavePathFinish(o, outcome) ==
  /\ o \in BagToSet(ops) /\ o.kind = "save"
  /\ LET pathId == IF outcome.ok /\ outcome.success THEN outcome.path_id ELSE o.pathId
         newPaths == Upsert(o.savedPaths, o.currentPath, pathId, Timestamp(now))
         pathWithId == [o.currentPath EXCEPT !.id = pathId, !.savedAt = Timestamp(now)] IN
       /\ store' = Set(store, [savedPaths |-> newPaths, currentPath |-> pathWithId])
       /\ storage' = PersistPaths(storage, newPaths)
       /\ opReturn' = [NoOpReturn EXCEPT !.op = "save", !.success = TRUE,
                         !.pathId = pathId, !.savedAt = Timestamp(now),
                         !.user = RanUnder(o),
                         !.loads = load.calls,
                         !.remote = IF outcome.ok /\ outcome.success THEN "ok" ELSE "failed",
                         !.alone = (load.pc = "idle" /\ ops = SetToBag({o}))]
  /\ now' = now + 1
  /\ ops' = Remove(ops, o)
  /\ UNCHANGED <<load, screen, srv, session, auth, remoteLog>>
  /\ UNCHANGED genVars
  /\ UNCHANGED pollVars

\* ------------------------------------------------------------- deletePath
\* deletePath(pathId) up to its await: DELETE /api/paths/{pathId} is sent.
DeletePathStart(pathId) ==
  /\ session # Null
  /\ BagCardinality(remoteLog) < MaxOps
  /\ ops' = Add(ops, Op("delete", session, store.savedPaths, NullPath, pathId, 0, 0, FALSE))
  /\ remoteLog' = Add(remoteLog, Request("delete", session))
  /\ UNCHANGED <<store, storage, load, screen, srv, now, session, auth, opReturn>>
  /\ UNCHANGED genVars
  /\ UNCHANGED pollVars

\* The remote delete has ended (an error is logged and dropped): the filter,
\* the set, persistPaths, and the return.
DeletePathFinish(o, remoteOk) ==
  /\ o \in BagToSet(ops) /\ o.kind = "delete"
  /\ LET newPaths == WithoutId(o.savedPaths, o.pathId) IN
       /\ store' = Set(store, [savedPaths |-> newPaths])
       /\ storage' = PersistPaths(storage, newPaths)
  /\ opReturn' = [NoOpReturn EXCEPT !.op = "delete", !.success = TRUE,
                    !.pathId = o.pathId, !.user = RanUnder(o),
                    !.loads = load.calls,
                    !.remote = IF remoteOk THEN "ok" ELSE "failed"]
  /\ ops' = Remove(ops, o)
  /\ UNCHANGED <<load, screen, srv, now, session, auth, remoteLog>>
  /\ UNCHANGED genVars
  /\ UNCHANGED pollVars

\* ---------------------------------------------- updateMilestoneCompletion
\* updateMilestoneCompletion(pathId, milestoneIndex, completed) with an
\* identifier that findIndex does not find: { success: false }.
UpdateMilestoneNotFound(pathId) ==
  /\ session # Null
  /\ FindIndex(store.savedPaths, pathId) = 0
  /\ opReturn' = [NoOpReturn EXCEPT !.op = "update", !.pathId = pathId,
                    !.user = session, !.loads = load.calls]
  /\ UNCHANGED <<store, storage, load, screen, srv, ops, now, session, auth, remoteLog>>
  /\ UNCHANGED genVars
  /\ UNCHANGED pollVars

\* ... with an identifier it finds, up to the await: POST
\* /api/paths/{pathId}/milestone is sent.
UpdateMilestoneStart(pathId, milestoneIndex, completed) ==
  /\ session # Null
  /\ FindIndex(store.savedPaths, pathId) > 0
  /\ BagCardinality(remoteLog) < MaxOps
  /\ ops' = Add(ops, Op("update", session, store.savedPaths, NullPath, pathId,
                         FindIndex(store.savedPaths, pathId), milestoneIndex, completed))
  /\ remoteLog' = Add(remoteLog, Request("update", session))
  /\ UNCHANGED <<store, storage, load, screen, srv, now, session, auth, opReturn>>
  /\ UNCHANGED genVars
  /\ UNCHANGED pollVars

\* The remote update has ended (an error is logged and dropped): the entry is
\* written, then the set, persistPaths, and the return.
UpdateMilestoneFinish(o, remoteOk) ==
  /\ o \in BagToSet(ops) /\ o.kind = "update"
  /\ LET newPaths == [o.savedPaths EXCEPT ![o.pathIndex] =
                        WithCompletion(@, o.milestoneIndex, o.completed)] IN
       /\ store' = Set(store, [savedPaths |-> newPaths])
       /\ storage' = PersistPaths(storage, newPaths)
  /\ opReturn' = [NoOpReturn EXCEPT !.op = "update", !.success = TRUE,
                    !.pathId = o.pathId, !.user = RanUnder(o),
                    !.loads = load.calls,
                    !.remote = IF remoteOk THEN "ok" ELSE "failed"]
  /\ ops' = Remove(ops, o)
  /\ UNCHANGED <<load, screen, srv, now, session, auth, remoteLog>>
  /\ UNCHANGED genVars
  /\ UNCHANGED pollVars

\* The identifiers the screens pass: those of the listed Artifacts, and one that
\* is not saved.
SavedIds == {store.savedPaths[i].id : i \in DOMAIN store.savedPaths}
UnknownId == "p9"

\* What earlier runs of the app left in the partition of `user`: a path saved
\* online and, before it, one saved offline.
StoredAtStart(user) == <<Artifact("s1", user, "T2"), Artifact(Undefined, user, "T1")>>

\* A session of one user, after sign-in and the first loadSavedPaths: the
\* collection is the content of the user's partition.
InitSaved ==
  /\ session \in SessionIds
  /\ auth = SignedIn(session)
  /\ store = Set(InitialStore, [savedPaths |-> StoredAtStart(session),
                                currentUserId |-> session])
  /\ storage = [k \in StorageKeys |-> Item(StoredAtStart(k[2]))]
  /\ genPc = "idle"
  /\ retryCount = 0
  /\ genCalls = 0
  /\ genAttempts = 0
  /\ genInflight = 0
  /\ genErrors = <<>>
  /\ genReturn = NoReturn
  /\ screen = "form"
  /\ ctrl = [g \in Gens |-> NoCtrl]
  /\ polls = EmptyBag
  /\ nTicks = 0
  /\ srv = [t \in Tasks |-> "none"]
  /\ load = NoLoad
  /\ ops = EmptyBag
  /\ now = 3
  /\ remoteLog = EmptyBag
  /\ opReturn = NoOpReturn

\* The three operations on the collection within one session.
NextSaved ==
  \/ SetCurrentPath(GeneratedFor(session))
  \/ SavePathNoPath
  \/ SavePathStart
  \/ \E o \in BagToSet(ops) : \E outcome \in SaveOutcomes : SavePathFinish(o, outcome)
  \/ \E pathId \in SavedIds : DeletePathStart(pathId)
  \/ \E o \in BagToSet(ops) : \E remoteOk \in BOOLEAN : DeletePathFinish(o, remoteOk)
  \/ \E pathId \in SavedIds \cup {UnknownId} : UpdateMilestoneNotFound(pathId)
  \/ \E pathId \in SavedIds \cup {UnknownId} :
       \E milestoneIndex \in Indices : \E completed \in BOOLEAN :
         UpdateMilestoneStart(pathId, milestoneIndex, completed)
  \/ \E o \in BagToSet(ops) : \E remoteOk \in BOOLEAN : UpdateMilestoneFinish(o, remoteOk)

SpecSaved == InitSaved /\ [][NextSaved]_vars

\* Sessions one after another on one device: sign-in, refresh, save, sign-out.
\* The app starts signed out, with the partitions as earlier runs left them.
InitSession ==
  /\ session = Null
  /\ store = InitialStore
  /\ storage = [k \in StorageKeys |-> Item(StoredAtStart(k[2]))]
  /\ genPc = "idle"
  /\ retryCount = 0
  /\ genCalls = 0
  /\ genAttempts = 0
  /\ genInflight = 0
  /\ genErrors = <<>>
  /\ genReturn = NoReturn
  /\ screen = "form"
  /\ ctrl = [g \in Gens |-> NoCtrl]
  /\ polls = EmptyBag
  /\ nTicks = 0
  /\ srv = [t \in Tasks |-> "none"]
  /\ load = NoLoad
  /\ ops = EmptyBag
  /\ now = 3
  /\ remoteLog = EmptyBag
  /\ opReturn = NoOpReturn
  /\ auth = SignedOut

NextSession ==
  \/ \E user \in SessionIds : Login(user)
  \/ Logout
  \/ session # Null /\ LoadStart(session)
  \/ \E response \in RemoteLists(load.userId) : LoadRemoteAnswer(response)
  \/ LoadMirrorDone
  \/ LoadRemoteFail
  \/ LoadLocalAnswer
  \/ LoadLocalFail
  \/ session # Null /\ SetCurrentPath(GeneratedFor(session))
  \/ BagCardinality(remoteLog) < MaxSessionOps /\ SavePathStart
  \/ \E o \in BagToSet(ops) : \E outcome \in SaveOutcomes : SavePathFinish(o, outcome)

SpecSession == InitSession /\ [][NextSession]_vars

\* ------------------------------------------------------------------ logout
\* logout() up to its first await: POST /auth/api/logout is sent.
LogoutStart ==
  /\ session # Null
  /\ auth.pc = "idle"
  /\ auth' = [auth EXCEPT !.pc = "remote", !.isLoading = TRUE, !.remote = "none"]
  /\ UNCHANGED <<store, storage, load, screen, srv, ops, now, session, remoteLog, opReturn>>
  /\ UNCHANGED genVars
  /\ UNCHANGED pollVars

\* The remote logout has ended, with an answer or an error (which is logged): the
\* finally block clears token, user and isAuthenticated and awaits clearAuthState.
LogoutRemoteEnd(remoteOk) ==
  /\ auth.pc = "remote"
  /\ auth' = [ClearAuth(auth) EXCEPT !.pc = "clearing",
                                     !.remote = IF remoteOk THEN "ok" ELSE "failed"]
  /\ session' = Null
  /\ UNCHANGED <<store, storage, load, screen, srv, ops, now, remoteLog, opReturn>>
  /\ UNCHANGED genVars
  /\ UNCHANGED pollVars

\* clearAuthState has ended (an error of multiRemove is logged inside it):
\* resetForUserSwitch(), setIsLoading(false), and logout returns.
LogoutReturn ==
  /\ auth.pc = "clearing"
  /\ auth' = [auth EXCEPT !.pc = "idle", !.isLoading = FALSE]
  /\ store' = Set(store, ResetForUserSwitchPatch)
  /\ UNCHANGED <<storage, load, screen, srv, ops, now, session, remoteLog, opReturn>>
  /\ UNCHANGED genVars
  /\ UNCHANGED pollVars

\* Sign-in and sign-out with logout taken step by step, around loadSavedPaths and
\* setCurrentPath.  The sign-in screens are used once logout has returned.
NextAuth ==
  \/ \E user \in SessionIds : auth.pc = "idle" /\ Login(user)
  \/ LogoutStart
  \/ \E remoteOk \in BOOLEAN : LogoutRemoteEnd(remoteOk)
  \/ LogoutReturn
  \/ session # Null /\ LoadStart(session)
  \/ \E response \in RemoteLists(load.userId) : LoadRemoteAnswer(response)
  \/ LoadMirrorDone
  \/ LoadRemoteFail
  \/ LoadLocalAnswer
  \/ LoadLocalFail
  \/ session # Null /\ SetCurrentPath(GeneratedFor(session))

SpecAuth == InitSession /\ [][NextAuth]_vars

\* ------------------------------------------------- one generation to its end
\* An interval callback as in Tick, any number of them over time: the requests
\* are answered within MaxInflight intervals.
TickAgain(g) ==
  /\ TimerFires(ctrl[g])
  /\ BagCardinality(polls) < MaxInflight
  /\ polls' = IF Falsy(store.taskId) THEN polls
              ELSE Add(polls, Poll(g, "status", store.taskId))
  /\ UNCHANGED <<store, screen, ctrl, nTicks, srv>>
  /\ UNCHANGED genVars
  /\ UNCHANGED loadVars
  /\ UNCHANGED savedVars

\* Every pollStatus call that can be suspended.
AllPolls == {Poll(g, pc, tid) : g \in Gens, pc \in {"status", "result"}, tid \in Tasks}

\* The suspended call p gets its answer, or its error.
Answer(p) ==
  /\ p \in BagToSet(polls)
  /\ \/ \E status \in ServerStatuses : \E serverError \in {Undefined, ServerMessage} :
          StatusResponse(p, status, serverError)
     \/ ResultResponse(p)
     \/ PollError(p)

\* A status request is answered with a terminal status.
TerminalAnswer ==
  \E p \in BagToSet(polls) : \E status \in {"finished", "failed"} :
    \E serverError \in {Undefined, ServerMessage} : StatusResponse(p, status, serverError)

\* One generation that nobody cancels, polled until it ends.
NextLive ==
  \/ genCalls = 0 /\ GeneratePathStart
  \/ \E kind \in Components(ctrl) :
       \E response \in GenResponses(genCalls) : GenerateSuccess(response, kind)
  \/ \E e \in GenErrors : GenerateRetryWait(e)
  \/ GenerateRetry
  \/ \E e \in GenErrors : GenerateFailure(e)
  \/ \E g \in Gens : TickAgain(g)
  \/ \E p \in AllPolls : Answer(p)
  \/ \E g \in Gens : NavigateToResult(g)

\* The interval fires as long as it is not cleared, every request is answered
\* or fails, and the service ends up reporting the task finished or failed.
SpecLive ==
  /\ Init
  /\ [][NextLive]_vars
  /\ WF_vars(\E g \in Gens : TickAgain(g))
  /\ \A p \in AllPolls : WF_vars(Answer(p))
  /\ SF_vars(TerminalAnswer)

\* ===================================================================
\* Properties of the polling controller and of generatePath (under Spec)
\* ===================================================================

\* Requests of controller g that are unanswered.
InFlight(g, pc) ==
  BagCardinality([p \in {q \in BagToSet(polls) : q.g = g /\ q.pc = pc} |-> polls[p]])

\* This step issues a status request (a result fetch) on behalf of controller g.
IssuesStatus(g) ==
  \E t \in Tasks :
    CopiesIn(Poll(g, "status", t), polls') > CopiesIn(Poll(g, "status", t), polls)
IssuesResult(g) ==
  \E t \in Tasks :
    CopiesIn(Poll(g, "result", t), polls') > CopiesIn(Poll(g, "result", t), polls)

\* This step delivers the answer (or the failure) of the suspended call p.
Answers(p) == CopiesIn(p, polls') < CopiesIn(p, polls)

\* C1: within one polling controller at most one status request (checkStatus) is
\* in flight at any time; a tick during an unanswered request issues none.
C1_OneStatusRequestInFlight ==
  \A g \in Gens : InFlight(g, "status") <= 1

\* C2: a controller started on a non-terminal status that has observed `finished`
\* (its result fetch is in flight; its interval has not been cleared by a failure,
\* by a cancel or by an earlier completion) has issued its one result fetch and
\* issues no status request and no further result fetch.
C2_OneResultFetchThenSilence ==
  [][\A g \in Gens :
       (/\ InFlight(g, "result") >= 1
        /\ ctrl[g].firstStatus \in NonTerminalSet
        /\ ctrl[g].timer = "live"
        /\ ~ctrl[g].cancelled)
         => (~IssuesStatus(g) /\ ~IssuesResult(g))]_vars

\* C3: once the effect's cleanup has cleared the interval (unmount, task change,
\* Cancel), the controller issues no status request in any later step.
C3_NoStatusRequestAfterCancel ==
  [][\A g \in Gens : ctrl[g].cancelled => ~IssuesStatus(g)]_vars

\* A cancelled controller that has polled, while the store still tracks a task
\* and ticks are left: a timer still running would issue a request here.
C3_Witness ==
  \E g \in Gens :
    /\ ctrl[g].cancelled
    /\ ctrl[g].timer = "cleared"
    /\ ~Falsy(store.taskId)
    /\ nTicks \in 1..(MaxTicks - 1)

\* C4: after Cancel (interval cleared, resetGeneration called) no answer to a poll
\* started before it changes currentPath, taskStatus, error or isGenerating, and
\* no result fetch is issued for it.
C4_NoEffectAfterCancel ==
  [][\A p \in BagToSet(polls) :
       (ctrl[p.g].reset /\ Answers(p))
         => /\ store'.currentPath = store.currentPath
            /\ store'.taskStatus = store.taskStatus
            /\ store'.error = store.error
            /\ store'.isGenerating = store.isGenerating
            /\ ~IssuesResult(p.g)]_vars

\* The step in which generatePath returns the immediate (deferred) signal.
ReturnsNow(kind) == genPc = "request" /\ genPc' = "idle" /\ genReturn'.kind = kind

\* C5 (as claimed): on synchronous completion the current Artifact is the result,
\* no task identifier is retained, the in-flight flag is cleared, the immediate
\* signal is returned and no polling controller is started.
C5_ImmediateRetainsNoTask ==
  [][ReturnsNow("immediate")
       => /\ store'.currentPath = genReturn'.result
          /\ genReturn'.result # NullPath
          /\ Falsy(store'.taskId)
          /\ ~store'.isGenerating
          /\ genReturn'.success
          /\ ctrl' = ctrl /\ polls' = polls]_vars

\* C5 (amended): as above, but the store's task identifier is the task_id the
\* response carried (none when it carried none); and as long as that call is the
\* last one, no controller exists for it and no request of one is in flight.
C5_ImmediateCompletion ==
  /\ [][ReturnsNow("immediate")
         => /\ store'.currentPath = genReturn'.result
            /\ genReturn'.result # NullPath
            /\ store'.taskId = genReturn'.taskId
            /\ store'.taskStatus = "finished"
            /\ ~store'.isGenerating
            /\ genReturn'.success
            /\ ctrl' = ctrl /\ polls' = polls]_vars
  /\ [](genReturn.kind = "immediate" /\ genPc = "idle"
          => /\ ctrl[genCalls] = NoCtrl
             /\ InFlight(genCalls, "status") + InFlight(genCalls, "result") = 0)

\* generatePath has returned immediate and the store keeps the response's task_id.
C5_Witness ==
  /\ genReturn.kind = "immediate"
  /\ genPc = "idle"
  /\ store.currentPath = genReturn.result
  /\ store.taskId = TaskNames[genCalls]
  /\ screen = "result"

\* C6: after a deferred return the store holds the returned task identifier while
\* the controller is mounted; every request of the controller is for that task;
\* and once the current Artifact is the result fetched for the task the store
\* tracks, it stays so as long as the store tracks that task: it is final.
C6_DeferredPollsItsTask ==
  /\ [](\A g \in Gens :
          ctrl[g].mounted =>
            /\ g = genCalls
            /\ genReturn.kind = "deferred"
            /\ store.taskId = genReturn.taskId)
  /\ [](\A p \in BagToSet(polls) : p.tid = TaskNames[p.g])
  /\ [][\A t \in Tasks :
          (/\ genReturn.kind = "deferred"
           /\ store.taskId = t /\ store'.taskId = t
           /\ store.currentPath = ResultOf(t))
            => store'.currentPath = ResultOf(t)]_vars

Transient == {TimeoutError, NetworkError}
AllTransient(errors) == \A i \in DOMAIN errors : errors[i] \in Transient
Returned == genCalls > 0 /\ genPc = "idle"

\* C7: a generate call whose first k attempts (k in 0..2) fail with a timeout or a
\* network error and whose next attempt succeeds returns the success result after
\* exactly k+1 requests: such a failure before the third request never ends the
\* call, each request follows the failure of the one before, and no two requests
\* are in flight.
C7_RetryThenSuccess ==
  /\ [](/\ genInflight <= 1
        /\ (genPc = "request") = (genInflight = 1)
        /\ (genPc = "request")
             => /\ genAttempts = Len(genErrors) + 1
                /\ AllTransient(genErrors)
                /\ Len(genErrors) <= maxRetries)
  /\ [][(ReturnsNow("immediate") \/ ReturnsNow("deferred"))
          => /\ genReturn'.success
             /\ genAttempts = Len(genErrors) + 1]_vars
  /\ [][(ReturnsNow("failure") /\ genReturn'.error \in Transient)
          => Len(genErrors) = maxRetries]_vars

\* Two transient failures of different kinds and two waits later, the third
\* request of the call is the only one in flight.
C7_Witness ==
  /\ genPc = "request"
  /\ genErrors = <<TimeoutError, NetworkError>>
  /\ genAttempts = 3
  /\ genInflight = 1
  /\ store.isGenerating

\* C8: generate surfaces a failure after exactly 1 request when that request fails
\* with an error that is neither timeout nor network class (no retry follows such
\* an error), after exactly 3 when every attempt fails with a timeout or network
\* error, and never issues a fourth request.
C8_FailureSurfacing ==
  /\ [](genAttempts <= maxRetries + 1)
  /\ [][ReturnsNow("failure")
          => /\ ~genReturn'.success
             /\ genAttempts = Len(genErrors) + 1
             /\ AllTransient(genErrors)
             /\ \/ genReturn'.error \notin Transient
                \/ genAttempts = maxRetries + 1]_vars
  /\ [][(genPc = "request" /\ genPc' = "delay")
          => /\ Len(genErrors') = genAttempts
             /\ genErrors'[Len(genErrors')] \in Transient]_vars

\* A call has ended in failure on an error of the timeout class (its third).
C8_Witness ==
  /\ Returned
  /\ ~genReturn.success
  /\ genReturn.error = TimeoutError
  /\ ~store.isGenerating
  /\ store.error = "Failed to start generation"

\* ===================================================================
\* Properties of loadSavedPaths (under SpecLoad)
\* ===================================================================

LocalBefore(userId) ==
  LET item == load.before[<<SAVED_PATHS_KEY_PREFIX, userId>>] IN
  IF item = NullItem THEN <<>> ELSE CHOOSE l \in SavedLists : Item(l) = item

\* C10: when loadSavedPaths(U) has completed after the remote list call failed (and
\* the local read answered), the in-memory collection is exactly what U's
\* partition held before the call, empty only if it held nothing or an empty
\* list, and storage is as it was before the call.
C10_FallbackInvariant ==
  (load.pc = "idle" /\ load.remote = "failed" /\ load.read = "ok")
    => /\ store.savedPaths = LocalBefore(load.userId)
       /\ storage = load.before
       /\ ~store.isLoading

\* A completed fallback that brought back a stored two-entry list for u2, one
\* of whose entries has no save timestamp.
C10_Witness ==
  /\ load.pc = "idle"
  /\ load.remote = "failed"
  /\ load.read = "ok"
  /\ load.userId = "u2"
  /\ store.savedPaths = <<Artifact("p2", "b", Undefined), Artifact("p1", "a", "T1")>>
  /\ storage[<<SAVED_PATHS_KEY_PREFIX, "u1">>] # storage[<<SAVED_PATHS_KEY_PREFIX, "u2">>]

\* C11: loadSavedPaths always settles (it never throws); when neither the remote
\* list (unavailable, or skipped for a guest) nor the local read delivered, the
\* in-memory saved collection is empty, the store holds an error and isLoading
\* is cleared.
C11_TotalFailureEmpty ==
  (load.pc = "idle" /\ load.read = "failed")
    => /\ store.savedPaths = <<>>
       /\ store.error # Null
       /\ ~store.isLoading

\* ===================================================================
\* Properties of the saved collection (under SpecSaved and SpecSession)
\* ===================================================================

\* The collection holds an Artifact with this identifier and save timestamp.
Holds(paths, pathId, savedAt) ==
  \E i \in DOMAIN paths : paths[i].id = pathId /\ paths[i].savedAt = savedAt

\* The last store operation to return was a successful savePath of `userId`,
\* returned with no other store call suspended, and the loadSavedPaths(userId)
\* that has just completed was the next call after it and read the local
\* partition.
SavedThenLoaded ==
  /\ opReturn.op = "save" /\ opReturn.success /\ opReturn.alone
  /\ load.pc = "idle" /\ load.read = "ok"
  /\ load.userId = opReturn.user
  /\ load.calls = opReturn.loads + 1
  /\ session = load.userId
  /\ ops = EmptyBag

ExpectedId(o, outcome) ==
  IF outcome.ok /\ outcome.success THEN outcome.path_id ELSE o.currentPath.id

\* C13: savePath with a current Artifact returns success whether the remote save
\* succeeds or fails, and the collection then contains that Artifact with a save
\* timestamp and with the server-assigned path_id (remote save succeeded) or its
\* own identifier (remote save failed); savePath without a current Artifact
\* returns failure and changes nothing.
C13_SaveAlwaysSucceedsLocally ==
  [][ /\ \A o \in BagToSet(ops) : \A outcome \in SaveOutcomes :
           SavePathFinish(o, outcome) =>
             /\ opReturn'.success
             /\ opReturn'.pathId = ExpectedId(o, outcome)
             /\ \E i \in DOMAIN store'.savedPaths :
                  /\ store'.savedPaths[i].id = ExpectedId(o, outcome)
                  /\ store'.savedPaths[i].body = o.currentPath.body
                  /\ store'.savedPaths[i].savedAt = Timestamp(now)
      /\ SavePathNoPath =>
           /\ ~opReturn'.success
           /\ UNCHANGED <<store, storage, remoteLog, ops>> ]_vars

C13_Witness ==
  /\ opReturn.op = "save" /\ opReturn.success
  /\ opReturn.remote = "failed"
  /\ Holds(store.savedPaths, opReturn.pathId, opReturn.savedAt)

\* C14: the saved collection is ordered by save timestamp from newest to oldest
\* after any sequence of savePath, deletePath and updateMilestoneCompletion calls.
C14_NewestFirst ==
  \A i, j \in DOMAIN store.savedPaths :
    i < j => InstantOf(store.savedPaths[i].savedAt) >= InstantOf(store.savedPaths[j].savedAt)

SendsUpdate ==
  CopiesIn(Request("update", session), remoteLog')
    > CopiesIn(Request("update", session), remoteLog)

\* This step is a return of updateMilestoneCompletion with a failure.
UpdateFails == opReturn' # opReturn /\ opReturn'.op = "update" /\ ~opReturn'.success

\* C16: updateMilestoneCompletion with a pathId that is not in the collection
\* returns the not-found failure and has no side effects: collection and
\* partitions unchanged, no remote update request issued.
C16_UnknownPathNoEffect ==
  [][ /\ SendsUpdate =>
           \E o \in BagToSet(ops') : CopiesIn(o, ops') > CopiesIn(o, ops) /\ o.pathId \in SavedIds
      /\ \A pathId \in (SavedIds \cup {UnknownId}) :
           (pathId \notin SavedIds /\ UpdateMilestoneNotFound(pathId)) =>
             /\ UpdateFails
             /\ UNCHANGED <<store, storage, remoteLog, ops>> ]_vars

C16_Witness ==
  /\ opReturn.op = "update" /\ ~opReturn.success
  /\ opReturn.pathId = UnknownId
  /\ store.savedPaths # <<>>

\* C17: every key of every saved Artifact's milestone-completion map lies in
\* [0, milestones.length) of that Artifact.
C17_CompletionKeysInRange ==
  \A i \in DOMAIN store.savedPaths :
    DOMAIN CompletedMilestones(store.savedPaths[i]) \subseteq 0..(MilestonesLength - 1)

\* C18: while the current user is the guest identity, savePath, deletePath and
\* updateMilestoneCompletion issue no request to the remote service.
C18_GuestNeverRemote ==
  \A r \in BagToSet(remoteLog) : r.user # GUEST_USER_ID

\* C19: the partition keyed by user U (or by the guest sentinel) only ever holds
\* a collection loaded for or saved under U: no Artifact of another identity.
C19_PartitionIsolation ==
  \A k \in StorageKeys :
    \A i \in DOMAIN StoredPaths(storage[k]) : StoredPaths(storage[k])[i].body = k[2]

\* C20: from resetForUserSwitch onward, through the sign-in of the next user and
\* its loadSavedPaths, the in-memory collection contains no Artifact of the
\* previous user.
C20_NoPreviousUserPaths ==
  session # Null =>
    \A i \in DOMAIN store.savedPaths : store.savedPaths[i].body = session

\* C21: store operations started before an earlier one has finished do not
\* interleave; in particular an Artifact whose deletePath has completed is not
\* put back by an updateMilestoneCompletion of it that was started earlier.
C21_DeletedStaysDeleted ==
  [][ \A o \in BagToSet(ops) : \A remoteOk \in BOOLEAN :
        (UpdateMilestoneFinish(o, remoteOk) /\ o.pathId \notin SavedIds)
          => \A i \in DOMAIN store'.savedPaths : store'.savedPaths[i].id # o.pathId ]_vars

\* C22: logout from any authenticated state (user or guest) ends unauthenticated
\* with token and user cleared, and resetForUserSwitch has run before logout
\* returns, also when the remote logout request fails.
C22_LogoutClearsAndResets ==
  /\ [][ LogoutReturn =>
           /\ auth'.token = Null /\ session' = Null /\ ~auth'.isAuthenticated
           /\ store'.savedPaths = <<>> /\ store'.currentPath = NullPath
           /\ store'.currentUserId = Null ]_vars
  /\ [](auth.pc = "clearing" => (auth.token = Null /\ session = Null
                                   /\ ~auth.isAuthenticated))

C22_Witness ==
  /\ auth.pc = "idle" /\ auth.remote = "failed"
  /\ session = Null /\ ~auth.isAuthenticated
  /\ store.currentUserId = Null
  /\ load.calls > 0

\* A loadSavedPaths call for the guest, or without a user identifier, has
\* completed with the local read answered.
GuestLoadDone ==
  /\ load.pc = "idle" /\ load.calls > 0
  /\ (load.userId = GUEST_USER_ID \/ Falsy(load.userId))
  /\ load.read = "ok"

\* C23: loadSavedPaths for the guest (or an empty user identifier) issues no
\* remote list request and reads only the guest partition: the collection is
\* that partition's content, empty when the partition holds nothing, and no
\* partition is written.
C23_GuestLoadLocalOnly ==
  /\ (load.pc # "idle" /\ (load.userId = GUEST_USER_ID \/ Falsy(load.userId)))
        => load.pc = "local"
  /\ GuestLoadDone =>
        /\ load.remote = "none"
        /\ storage = load.before
        /\ LET stored == load.before[<<SAVED_PATHS_KEY_PREFIX, GUEST_USER_ID>>] IN
             store.savedPaths = IF stored = NullItem THEN <<>> ELSE JSONParse(stored.json)

C23_Witness ==
  /\ GuestLoadDone
  /\ load.userId = Undefined
  /\ store.savedPaths # <<>>
  /\ \E k \in StorageKeys : k[2] # GUEST_USER_ID /\ storage[k] # NullItem
                              /\ storage[k] # storage[<<SAVED_PATHS_KEY_PREFIX, GUEST_USER_ID>>]

\* After a logout a user has signed in, and the loadSavedPaths of that sign-in
\* has fallen back to the local partition, no other load having written to it.
SignedInAgainLoaded ==
  /\ session # Null /\ load.userId = session
  /\ load.pc = "idle" /\ load.read = "ok"
  /\ auth.pc = "idle" /\ auth.remote # "none"
  /\ storage = [k \in StorageKeys |-> Item(StoredAtStart(k[2]))]

\* C24: resetForUserSwitch clears the whole in-memory state (saved collection,
\* current Artifact, task identifier, task status, in-flight flag, error, current
\* user) and leaves every storage partition unchanged, so that a loadSavedPaths
\* after it that falls back to the local partition recovers what was persisted.
C24_ResetClearsMemoryOnly ==
  /\ [][ LogoutReturn =>
           /\ store' = InitialStore
           /\ storage' = storage ]_vars
  /\ [](SignedInAgainLoaded => store.savedPaths = StoredAtStart(session))

C24_Witness ==
  /\ SignedInAgainLoaded
  /\ session = "u1"
  /\ load.remote = "failed"
  /\ store.savedPaths # <<>>

\* C25: when the generate call fails, generatePath returns a failure signal,
\* records an error message (the server-supplied one when the response carries
\* one, the generic one otherwise), clears the in-flight flag, retains no task
\* identifier, and returns instead of throwing.
C25_GenerateFailureRecorded ==
  [][ \A e \in GenErrors :
        GenerateFailure(e) =>
          /\ genReturn'.kind = "failure" /\ ~genReturn'.success
          /\ store'.error = (IF e.bodyError = ServerMessage THEN ServerMessage
                              ELSE "Failed to start generation")
          /\ ~store'.isGenerating
          /\ store'.taskId = Null
          /\ genPc' = "idle" ]_vars

C25_Witness ==
  /\ genReturn.kind = "failure"
  /\ store.error = ServerMessage
  /\ ~store.isGenerating /\ store.taskId = Null
  /\ genCalls > 1

\* C26: when a status poll returns `failed`, or the status or result-fetch request
\* fails at transport level, the polling controller stops at once (its interval
\* is cleared: that instance issues no further status request and does not
\* retry), the store's error is set (to the server-supplied message for `failed`
\* when present) and the in-flight flag is cleared.
C26_FailureStopsPolling ==
  /\ [][ \A p \in BagToSet(polls) :
           /\ \A serverError \in {Undefined, ServerMessage} :
                StatusResponse(p, "failed", serverError) =>
                  /\ ~TimerFires(ctrl'[p.g])
                  /\ store'.error = (IF serverError = ServerMessage THEN ServerMessage
                                      ELSE "Generation failed")
                  /\ ~store'.isGenerating
           /\ PollError(p) =>
                  /\ ~TimerFires(ctrl'[p.g])
                  /\ store'.error # Null
                  /\ ~store'.isGenerating ]_vars
  /\ [][ \A g \in Gens : (ctrl[g].timer # "none" /\ ~TimerFires(ctrl[g]))
                             => (~TimerFires(ctrl'[g]) /\ ~IssuesStatus(g)) ]_vars

C26_Witness ==
  \E g \in Gens :
    /\ ctrl[g].mounted /\ ctrl[g].timer = "cleared"
    /\ store.error = "Network Error"
    /\ ~store.isGenerating
    /\ store.taskStatus = "finished"

\* C27: savePath of a current Artifact that has never been saved, while the
\* remote save fails, adds a new entry: every Artifact of the collection it read
\* is still there and the collection has grown by one.
C27_SaveNeverReplacesAnother ==
  [][ \A o \in BagToSet(ops) : \A outcome \in SaveOutcomes :
        (/\ SavePathFinish(o, outcome)
         /\ ~(outcome.ok /\ outcome.success)
         /\ o.currentPath.savedAt = Undefined)
          => /\ Len(store'.savedPaths) = Len(o.savedPaths) + 1
             /\ \A i \in DOMAIN o.savedPaths :
                  \E j \in DOMAIN store'.savedPaths : store'.savedPaths[j] = o.savedPaths[i] ]_vars

\* C28: in every reachable store state, task status `finished` implies that a
\* current Artifact is present and no error is recorded.
C28_FinishedHasResult ==
  store.taskStatus = "finished"
    => (store.currentPath # NullPath /\ store.error = Null)

\* C29: a result fetched by a poll becomes the current Artifact only under the
\* task it was fetched for: a poll started for an earlier task and answered
\* after a new generatePath has recorded a different task identifier does not.
C29_ResultOfTrackedTask ==
  [][ \A p \in BagToSet(polls) :
        (ResultResponse(p) /\ ~Falsy(store.taskId)) => store.taskId = p.tid ]_vars

\* generatePath has returned the deferred signal for a task and polling started.
DeferredAndPolling ==
  /\ genReturn.kind = "deferred" /\ ~Falsy(genReturn.taskId)
  /\ \E g \in Gens : ctrl[g].timer # "none"

\* No interval is live any more and the in-flight flag is down.
Settled ==
  /\ ~store.isGenerating
  /\ \A g \in Gens : ~TimerFires(ctrl[g])

\* C30: if generatePath returned the deferred signal, polling was started and is
\* not cancelled, every request is eventually answered and the service
\* eventually reports the task finished or failed, then the controller
\* eventually stops issuing status requests and isGenerating eventually becomes
\* false and stays false.
C30_GenerationSettles == DeferredAndPolling ~> []Settled

C30_Witness ==
  /\ DeferredAndPolling /\ Settled
  /\ store.taskStatus = "finished" /\ store.currentPath # NullPath
  /\ polls = EmptyBag

====
